---- MODULE Spec2Model ----
(***************************************************************************)
(* State-machine model of the AdvancedTicTacToe React component            *)
(* (src/Game.jsx): the board/rules engine (handleCellClick, checkWinner,   *)
(* isDraw), the three move selectors (getRandomMove, getMediumMove,        *)
(* getBestMove/minimax) and the handlers and effects that sequence them.   *)
(*                                                                         *)
(* JavaScript arrays are modelled as sequences; the source's 0-based index *)
(* i is element i+1 of the sequence (see At and Put).                      *)
(***************************************************************************)
EXTENDS Integers, Sequences, FiniteSets, TLC

VARIABLES
    board,          \* useState: array of cells (null, "X" or "O")
    currentPlayer,  \* useState: "X" or "O"
    scores,         \* useState: {X: n, O: n}
    gameActive,     \* useState: boolean
    isAIMode,       \* useState: boolean
    boardSize,      \* useState: 3, 4 or 5
    aiDifficulty,   \* useState: "easy", "medium" or "hard"
    winnerMsg,      \* useState: status message
    aiTimer,        \* the pending setTimeout of the AI effect: the set (empty
                    \* or a singleton) of the render values its callback holds
    ret             \* the last value returned by a function called directly
                    \* (used by the function-level specifications), or NoCall

vars == <<board, currentPlayer, scores, gameActive, isAIMode, boardSize,
          aiDifficulty, winnerMsg, aiTimer, ret>>

gameVars == <<board, currentPlayer, scores, gameActive, winnerMsg>>

----------------------------------------------------------------------------
(* Bounds of the model *)

\* a new game is started (reset, mode toggle, size change) only while fewer
\* than this many games have been won
MaxWins == 2

\* on boards larger than 3x3, games are explored up to this many marks
MaxLargeBoardMarks == 1

\* where the model must bound the exhaustive search, it is run only on boards
\* with at most this many empty cells
MaxSearchEmpties == 3

\* a direct call of handleCellClick may grow the array by at most this many cells
MaxOverflow == 1

\* handleCellClick is applied to an arbitrary board with at most this many
\* empty cells
MaxClickEmpties == 1

\* at most this many moves are applied in a row to an empty board
MaxMoves == 2

----------------------------------------------------------------------------
(* Program constants and JavaScript values *)

BOARD_SIZES == {3, 4, 5}

AI_LEVELS == {"easy", "medium", "hard"}

null == "null"

undefined == "undefined"

\* null where the source holds an index or null (aiMove, move): no cell index
nullIndex == -1

\* -Infinity (and +Infinity, as its negation) of minimax and getBestMove: below
\* (above) every score 10 - depth, depth - 10 with depth <= 25
NegInfinity == -1000

\* aiTimer holds the pending timers of the AI effect (at most one)
NoTimer == {}

NoCall == [fn |-> "none"]

\* JavaScript truthiness of a cell value
Truthy(v) == v # null /\ v # undefined

\* arr[i] for i >= 0: undefined past the end of the array
At(arr, i) == IF i < Len(arr) THEN arr[i + 1] ELSE undefined

\* const a = [...arr]; a[idx] = v  (idx at most arr.length: writing at
\* arr.length appends)
Put(arr, idx, v) ==
    IF idx < Len(arr) THEN [arr EXCEPT ![idx + 1] = v] ELSE Append(arr, v)

\* Array(n).fill(null)
EmptyBoard(n) == [i \in 1..n |-> null]

Indices(arr) == 0..(Len(arr) - 1)

\* arr.every(cell => cell)
every(arr) == \A i \in Indices(arr) : Truthy(At(arr, i))

----------------------------------------------------------------------------
(* Rules engine *)

checkLine(arr, size, player, start, step) ==
    \A i \in 0..(size - 1) : At(arr, start + i * step) = player

\* checkWinner without its anti-diagonal test
checkWinnerNoAntiDiagonal(arr, size, player) ==
    \/ \E r \in 0..(size - 1) :
          Truthy(At(arr, r * size)) /\ checkLine(arr, size, player, r * size, 1)
    \/ \E c \in 0..(size - 1) :
          Truthy(At(arr, c)) /\ checkLine(arr, size, player, c, size)
    \/ Truthy(At(arr, 0)) /\ checkLine(arr, size, player, 0, size + 1)

checkWinner(arr, size, player) ==
    \/ \E r \in 0..(size - 1) :
          Truthy(At(arr, r * size)) /\ checkLine(arr, size, player, r * size, 1)
    \/ \E c \in 0..(size - 1) :
          Truthy(At(arr, c)) /\ checkLine(arr, size, player, c, size)
    \/ Truthy(At(arr, 0)) /\ checkLine(arr, size, player, 0, size + 1)
    \/ Truthy(At(arr, size - 1))
          /\ checkLine(arr, size, player, size - 1, size - 1)

\* isDraw testing only that the board is full
isDrawFullOnly(arr, size) == every(arr)

\* isDraw with the test of every inverted: true of an empty board only
isDrawAllEmpty(arr, size) ==
    (\A i \in Indices(arr) : ~Truthy(At(arr, i)))
    /\ ~checkWinner(arr, size, "X") /\ ~checkWinner(arr, size, "O")

\* isDraw reads boardSize from the enclosing render: passed as size
isDraw(arr, size) ==
    every(arr) /\ ~checkWinner(arr, size, "X") /\ ~checkWinner(arr, size, "O")

----------------------------------------------------------------------------
(* Move selectors.  Each reads board, boardSize from the render it was      *)
(* created in: passed as b, size.  A selector that draws from Math.random   *)
(* is modelled by the set of values it can return.                          *)

\* board.map((cell, i) => (cell === null ? i : null)).filter(i => i !== null)
emptyIndices(b) ==
    SelectSeq([k \in 1..Len(b) |-> k - 1], LAMBDA i : b[i + 1] = null)

\* Math.floor(Math.random() * n), Math.random() in [0, 1)
randomIndex(n) == 0..(n - 1)

\* getRandomMove returning the first empty cell when the board is not full
getRandomMoveFirstEmpty(b) ==
    LET empty == emptyIndices(b)
    IN  IF Len(empty) = 0 THEN {nullIndex} ELSE {empty[1]}

getRandomMove(b) ==
    LET empty == emptyIndices(b)
    IN  IF Len(empty) = 0 THEN {nullIndex}
        ELSE {empty[k + 1] : k \in randomIndex(Len(empty))}

\* the first empty cell i (scan order) that completes a line for player
firstCompleting(b, size, player) ==
    LET hits == {i \in Indices(b) :
                    b[i + 1] = null /\ checkWinner(Put(b, i, player), size, player)}
    IN  IF hits = {} THEN nullIndex
        ELSE CHOOSE i \in hits : \A j \in hits : i <= j

\* getMediumMove trying to block before trying to win
getMediumMoveBlockFirst(b, size) ==
    LET win == firstCompleting(b, size, "O")
        block == firstCompleting(b, size, "X")
        center == (size * size) \div 2
    IN  IF block # nullIndex THEN {block}
        ELSE IF win # nullIndex THEN {win}
        ELSE IF At(b, center) = null THEN {center}
        ELSE getRandomMove(b)

\* getMediumMove without the centre step
getMediumMoveNoCenter(b, size) ==
    LET win == firstCompleting(b, size, "O")
        block == firstCompleting(b, size, "X")
    IN  IF win # nullIndex THEN {win}
        ELSE IF block # nullIndex THEN {block}
        ELSE getRandomMove(b)

\* getMediumMove without its blocking loop
getMediumMoveNoBlock(b, size) ==
    LET win == firstCompleting(b, size, "O")
        center == (size * size) \div 2
    IN  IF win # nullIndex THEN {win}
        ELSE IF At(b, center) = null THEN {center}
        ELSE getRandomMove(b)

getMediumMove(b, size) ==
    LET win == firstCompleting(b, size, "O")
        block == firstCompleting(b, size, "X")
        center == (size * size) \div 2
    IN  IF win # nullIndex THEN {win}
        ELSE IF block # nullIndex THEN {block}
        ELSE IF At(b, center) = null THEN {center}
        ELSE getRandomMove(b)

SetMax(S) == CHOOSE m \in S : \A x \in S : x <= m

SetMin(S) == CHOOSE m \in S : \A x \in S : m <= x

RECURSIVE minimaxSwappedScores(_, _, _, _)

\* minimax with the two terminal scores exchanged
minimaxSwappedScores(arr, size, depth, isMaximizing) ==
    IF checkWinner(arr, size, "O") THEN depth - 10
    ELSE IF checkWinner(arr, size, "X") THEN 10 - depth
    ELSE IF every(arr) THEN 0
    ELSE LET empty == {i \in Indices(arr) : arr[i + 1] = null}
         IN  IF isMaximizing
             THEN SetMax({NegInfinity} \cup
                         {minimaxSwappedScores(Put(arr, i, "O"), size, depth + 1, FALSE) :
                             i \in empty})
             ELSE SetMin({-NegInfinity} \cup
                         {minimaxSwappedScores(Put(arr, i, "X"), size, depth + 1, TRUE) :
                             i \in empty})

RECURSIVE minimaxNoDepth(_, _, _, _)

\* minimax scoring a win 10 and a loss -10 at every depth
minimaxNoDepth(arr, size, depth, isMaximizing) ==
    IF checkWinner(arr, size, "O") THEN 10
    ELSE IF checkWinner(arr, size, "X") THEN -10
    ELSE IF every(arr) THEN 0
    ELSE LET empty == {i \in Indices(arr) : arr[i + 1] = null}
         IN  IF isMaximizing
             THEN SetMax({NegInfinity} \cup
                         {minimaxNoDepth(Put(arr, i, "O"), size, depth + 1, FALSE) :
                             i \in empty})
             ELSE SetMin({-NegInfinity} \cup
                         {minimaxNoDepth(Put(arr, i, "X"), size, depth + 1, TRUE) :
                             i \in empty})

\* minimax scoring the position it is given without searching below it
minimaxNoLookahead(arr, size, depth, isMaximizing) ==
    IF checkWinner(arr, size, "O") THEN 10 - depth
    ELSE IF checkWinner(arr, size, "X") THEN depth - 10
    ELSE 0

RECURSIVE minimax(_, _, _, _)

\* minimax(arr, depth, isMaximizing), boardSize passed as size.  Each loop
\* starts from -Infinity (Infinity) and folds Math.max (Math.min) over the
\* empty cells i, each searched with arr[i] set to the mover's mark and reset
\* to null afterwards: the best of the children's scores.
minimax(arr, size, depth, isMaximizing) ==
    IF checkWinner(arr, size, "O") THEN 10 - depth
    ELSE IF checkWinner(arr, size, "X") THEN depth - 10
    ELSE IF every(arr) THEN 0
    ELSE LET empty == {i \in Indices(arr) : arr[i + 1] = null}
         IN  IF isMaximizing
             THEN SetMax({NegInfinity} \cup
                         {minimax(Put(arr, i, "O"), size, depth + 1, FALSE) : i \in empty})
             ELSE SetMin({-NegInfinity} \cup
                         {minimax(Put(arr, i, "X"), size, depth + 1, TRUE) : i \in empty})

RECURSIVE minimaxDepth(_, _, _, _)

\* the greatest depth argument among the calls minimax(arr, depth,
\* isMaximizing) makes, itself included: a call at a finished position makes
\* none, another one calls minimax at depth + 1 for every empty cell
minimaxDepth(arr, size, depth, isMaximizing) ==
    IF checkWinner(arr, size, "O") THEN depth
    ELSE IF checkWinner(arr, size, "X") THEN depth
    ELSE IF every(arr) THEN depth
    ELSE SetMax({minimaxDepth(Put(arr, i, IF isMaximizing THEN "O" ELSE "X"),
                              size, depth + 1, ~isMaximizing) :
                    i \in {j \in Indices(arr) : arr[j + 1] = null}})

RECURSIVE getBestMoveLoopLastBest(_, _, _, _, _)

\* the loop of getBestMove with score >= bestScore as its test
getBestMoveLoopLastBest(b, size, i, bestScore, move) ==
    IF i >= Len(b) THEN move
    ELSE IF b[i + 1] # null
    THEN getBestMoveLoopLastBest(b, size, i + 1, bestScore, move)
    ELSE LET score == minimax(Put(b, i, "O"), size, 0, FALSE)
         IN  IF score >= bestScore
             THEN getBestMoveLoopLastBest(b, size, i + 1, score, i)
             ELSE getBestMoveLoopLastBest(b, size, i + 1, bestScore, move)

RECURSIVE getBestMoveLoop(_, _, _, _, _)

\* the loop of getBestMove from index i on, with the values bestScore and move
\* have at that point; its value is the final move
getBestMoveLoop(b, size, i, bestScore, move) ==
    IF i >= Len(b) THEN move
    ELSE IF b[i + 1] # null
    THEN getBestMoveLoop(b, size, i + 1, bestScore, move)
    ELSE LET score == minimax(Put(b, i, "O"), size, 0, FALSE)
         IN  IF score > bestScore
             THEN getBestMoveLoop(b, size, i + 1, score, i)
             ELSE getBestMoveLoop(b, size, i + 1, bestScore, move)

\* getBestMove with score >= bestScore as the test of its loop
getBestMoveLastBest(b, size) ==
    getBestMoveLoopLastBest(b, size, 0, NegInfinity, nullIndex)

\* getBestMove(): bestScore = -Infinity, move = null, then the loop
getBestMove(b, size) == getBestMoveLoop(b, size, 0, NegInfinity, nullIndex)

----------------------------------------------------------------------------
(* The component: renders, handlers, effects *)

\* the state values the closures of the current render hold
Render ==
    [board |-> board, currentPlayer |-> currentPlayer, gameActive |-> gameActive,
     boardSize |-> boardSize, aiDifficulty |-> aiDifficulty]

\* the text of the message, without the emoji the literal starts with
WinsMsg(player) == IF player = "X" THEN "X Wins!" ELSE "O Wins!"

DrawMsg == "It's a Draw!"

\* Variants of handleCellClick with one of its steps changed:
\*   rejected         replaces the test !gameActive || board[idx]
\*   checked          replaces the player whose lines are checked after the move
\*   drawEndsGame     whether the draw branch calls setGameActive(false)
clickVariant(c, idx, rejected, checked, drawEndsGame) ==
    IF rejected
    THEN UNCHANGED gameVars
    ELSE LET nextBoard == Put(c.board, idx, c.currentPlayer)
         IN  /\ board' = nextBoard
             /\ IF checkWinner(nextBoard, c.boardSize, checked)
                THEN /\ scores' = [scores EXCEPT ![c.currentPlayer] = @ + 1]
                     /\ winnerMsg' = WinsMsg(c.currentPlayer)
                     /\ gameActive' = FALSE
                     /\ UNCHANGED currentPlayer
                ELSE IF isDraw(nextBoard, c.boardSize)
                THEN /\ winnerMsg' = DrawMsg
                     /\ gameActive' = IF drawEndsGame THEN FALSE ELSE gameActive
                     /\ UNCHANGED <<currentPlayer, scores>>
                ELSE /\ currentPlayer' = IF c.currentPlayer = "X" THEN "O" ELSE "X"
                     /\ UNCHANGED <<scores, gameActive, winnerMsg>>

\* handleCellClick without its gameActive test
handleCellClickNoActiveTest(c, idx) ==
    clickVariant(c, idx, Truthy(At(c.board, idx)), c.currentPlayer, TRUE)

\* handleCellClick without its occupied-cell test
handleCellClickNoOccupiedTest(c, idx) ==
    clickVariant(c, idx, ~c.gameActive, c.currentPlayer, TRUE)

\* handleCellClick checking the lines of the player who did not move
handleCellClickChecksOpponent(c, idx) ==
    clickVariant(c, idx, ~c.gameActive \/ Truthy(At(c.board, idx)),
                 IF c.currentPlayer = "X" THEN "O" ELSE "X", TRUE)

\* handleCellClick whose draw branch leaves gameActive as it is
handleCellClickDrawStaysActive(c, idx) ==
    clickVariant(c, idx, ~c.gameActive \/ Truthy(At(c.board, idx)),
                 c.currentPlayer, FALSE)

\* handleCellClick whose draw branch also adds one to the mover's score
handleCellClickDrawScores(c, idx) ==
    IF ~c.gameActive \/ Truthy(At(c.board, idx))
    THEN UNCHANGED gameVars
    ELSE LET nextBoard == Put(c.board, idx, c.currentPlayer)
         IN  /\ board' = nextBoard
             /\ IF checkWinner(nextBoard, c.boardSize, c.currentPlayer)
                   \/ isDraw(nextBoard, c.boardSize)
                THEN /\ scores' = [scores EXCEPT ![c.currentPlayer] = @ + 1]
                     /\ winnerMsg' = IF checkWinner(nextBoard, c.boardSize, c.currentPlayer)
                                     THEN WinsMsg(c.currentPlayer) ELSE DrawMsg
                     /\ gameActive' = FALSE
                     /\ UNCHANGED currentPlayer
                ELSE /\ currentPlayer' = IF c.currentPlayer = "X" THEN "O" ELSE "X"
                     /\ UNCHANGED <<scores, gameActive, winnerMsg>>

\* handleCellClick that leaves the turn with the mover
handleCellClickKeepsTurn(c, idx) ==
    IF ~c.gameActive \/ Truthy(At(c.board, idx))
    THEN UNCHANGED gameVars
    ELSE LET nextBoard == Put(c.board, idx, c.currentPlayer)
         IN  /\ board' = nextBoard
             /\ IF checkWinner(nextBoard, c.boardSize, c.currentPlayer)
                THEN /\ scores' = [scores EXCEPT ![c.currentPlayer] = @ + 1]
                     /\ winnerMsg' = WinsMsg(c.currentPlayer)
                     /\ gameActive' = FALSE
                     /\ UNCHANGED currentPlayer
                ELSE IF isDraw(nextBoard, c.boardSize)
                THEN /\ winnerMsg' = DrawMsg
                     /\ gameActive' = FALSE
                     /\ UNCHANGED <<currentPlayer, scores>>
                ELSE UNCHANGED <<currentPlayer, scores, gameActive, winnerMsg>>

\* handleCellClick building nextBoard from an empty array instead of [...board]
handleCellClickFromEmpty(c, idx) ==
    clickVariant([c EXCEPT !.board = EmptyBoard(Len(c.board))], idx,
                 ~c.gameActive \/ Truthy(At(c.board, idx)), c.currentPlayer, TRUE)

\* handleCellClick(idx), run by a closure holding the render values c
handleCellClick(c, idx) ==
    IF ~c.gameActive \/ Truthy(At(c.board, idx))
    THEN UNCHANGED gameVars
    ELSE LET nextBoard == Put(c.board, idx, c.currentPlayer)
         IN  /\ board' = nextBoard
             /\ IF checkWinner(nextBoard, c.boardSize, c.currentPlayer)
                THEN /\ scores' = [scores EXCEPT ![c.currentPlayer] = @ + 1]
                     /\ winnerMsg' = WinsMsg(c.currentPlayer)
                     /\ gameActive' = FALSE
                     /\ UNCHANGED currentPlayer
                ELSE IF isDraw(nextBoard, c.boardSize)
                THEN /\ winnerMsg' = DrawMsg
                     /\ gameActive' = FALSE
                     /\ UNCHANGED <<currentPlayer, scores>>
                ELSE /\ currentPlayer' = IF c.currentPlayer = "X" THEN "O" ELSE "X"
                     /\ UNCHANGED <<scores, gameActive, winnerMsg>>

\* the values makeAIMove can pass to handleCellClick
aiMoves(c) ==
    IF c.aiDifficulty = "easy" THEN getRandomMove(c.board)
    ELSE IF c.aiDifficulty = "medium" THEN getMediumMove(c.board, c.boardSize)
    ELSE IF c.aiDifficulty = "hard" THEN {getBestMove(c.board, c.boardSize)}
    ELSE getRandomMove(c.board)

\* makeAIMove that never calls handleCellClick
makeAIMoveNoClick(c) ==
    \E aiMove \in aiMoves(c) : UNCHANGED gameVars

\* makeAIMove(), run by the timer callback holding the render values c
makeAIMove(c) ==
    \E aiMove \in aiMoves(c) :
        IF aiMove # nullIndex THEN handleCellClick(c, aiMove) ELSE UNCHANGED gameVars

\* the AI effect without the cleanup that clears the pending timer
aiEffectNoCleanup ==
    aiTimer' = aiTimer \cup
               (IF isAIMode' /\ currentPlayer' = "O" /\ gameActive'
                THEN {[board |-> board', currentPlayer |-> currentPlayer',
                       gameActive |-> gameActive', boardSize |-> boardSize',
                       aiDifficulty |-> aiDifficulty']}
                ELSE NoTimer)

\* The AI effect after a render whose dependencies changed: the cleanup clears
\* the pending timer, and a new one is set when it is the AI's turn.
aiEffect ==
    aiTimer' = IF isAIMode' /\ currentPlayer' = "O" /\ gameActive'
               THEN {[board |-> board', currentPlayer |-> currentPlayer',
                      gameActive |-> gameActive', boardSize |-> boardSize',
                      aiDifficulty |-> aiDifficulty']}
               ELSE NoTimer

\* re-render and effects after a handler: nothing happens when no state changed
afterHandler ==
    IF UNCHANGED <<board, currentPlayer, scores, gameActive, winnerMsg,
                   isAIMode, boardSize, aiDifficulty>>
    THEN UNCHANGED aiTimer
    ELSE aiEffect

Marks(arr) == Cardinality({i \in Indices(arr) : Truthy(At(arr, i))})

Empties(arr) == Cardinality({i \in Indices(arr) : At(arr, i) = null})

\* the part of the state space the model explores
WithinBounds == boardSize > 3 => Marks(board) <= MaxLargeBoardMarks

CanStartGame == scores["X"] + scores["O"] < MaxWins

\* resetGame without setCurrentPlayer("X")
resetGameKeepsPlayer ==
    /\ board' = EmptyBoard(boardSize * boardSize)
    /\ UNCHANGED currentPlayer
    /\ gameActive' = TRUE
    /\ winnerMsg' = ""

resetGame ==
    /\ board' = EmptyBoard(boardSize * boardSize)
    /\ currentPlayer' = "X"
    /\ gameActive' = TRUE
    /\ winnerMsg' = ""

\* a click on one of the rendered cells
CellClick ==
    \E idx \in Indices(board) :
        /\ handleCellClick(Render, idx)
        /\ UNCHANGED <<isAIMode, boardSize, aiDifficulty, ret>>
        /\ afterHandler
        /\ WithinBounds'

\* the AI effect's timer fires: makeAIMove runs
TimerFires ==
    \E c \in aiTimer :
        /\ makeAIMove(c)
        /\ UNCHANGED <<isAIMode, boardSize, aiDifficulty, ret>>
        /\ afterHandler

\* the exhaustive search of c's board is within the model's bound
SearchBounded(c) ==
    c.aiDifficulty = "hard" => Empties(c.board) <= MaxSearchEmpties

AITimer ==
    /\ \A c \in aiTimer : SearchBounded(c)
    /\ TimerFires
    /\ WithinBounds'

\* the Restart button
ResetClick ==
    /\ CanStartGame
    /\ resetGame
    /\ UNCHANGED <<scores, isAIMode, boardSize, aiDifficulty, ret>>
    /\ aiEffect

\* the AI button: toggleAIMode
toggleAIMode ==
    /\ CanStartGame
    /\ isAIMode' = ~isAIMode
    /\ resetGame
    /\ UNCHANGED <<scores, boardSize, aiDifficulty, ret>>
    /\ aiEffect

\* the difficulty selector's onChange
setAIDifficulty ==
    \E level \in AI_LEVELS \ {aiDifficulty} :
        /\ aiDifficulty' = level
        /\ UNCHANGED <<gameVars, isAIMode, boardSize, ret>>
        /\ aiEffect

\* the size selector's onChange with a boardSize effect that leaves the board
\* as it is
setBoardSizeKeepsBoard ==
    \E size \in BOARD_SIZES \ {boardSize} :
        /\ CanStartGame
        /\ boardSize' = size
        /\ currentPlayer' = "X"
        /\ gameActive' = TRUE
        /\ winnerMsg' = ""
        /\ UNCHANGED <<board, scores, isAIMode, aiDifficulty, ret>>
        /\ aiEffect

\* the size selector's onChange, with the boardSize effect that follows the
\* render
setBoardSize ==
    \E size \in BOARD_SIZES \ {boardSize} :
        /\ CanStartGame
        /\ boardSize' = size
        /\ board' = EmptyBoard(size * size)
        /\ currentPlayer' = "X"
        /\ gameActive' = TRUE
        /\ winnerMsg' = ""
        /\ UNCHANGED <<scores, isAIMode, aiDifficulty, ret>>
        /\ aiEffect

Init ==
    /\ board = EmptyBoard(9)
    /\ currentPlayer = "X"
    /\ scores = [X |-> 0, O |-> 0]
    /\ gameActive = TRUE
    /\ isAIMode = FALSE
    /\ boardSize = 3
    /\ aiDifficulty = "easy"
    /\ winnerMsg = ""
    /\ aiTimer = NoTimer
    /\ ret = NoCall

Next ==
    \/ CellClick
    \/ AITimer
    \/ ResetClick
    \/ toggleAIMode
    \/ setAIDifficulty
    \/ setBoardSize

Spec == Init /\ [][Next]_vars

----------------------------------------------------------------------------
(* Reference definitions used by the properties *)

Cell(size, r, c) == r * size + c

\* the 2*size + 2 lines of a size x size board, as sets of cell indices
Lines(size) ==
    {{Cell(size, r, c) : c \in 0..(size - 1)} : r \in 0..(size - 1)}
    \cup {{Cell(size, r, c) : r \in 0..(size - 1)} : c \in 0..(size - 1)}
    \cup {{Cell(size, i, i) : i \in 0..(size - 1)}}
    \cup {{Cell(size, i, size - 1 - i) : i \in 0..(size - 1)}}

\* the lines of each board size
AllLines == [size \in BOARD_SIZES |-> Lines(size)]

HasLine(arr, size, player) ==
    \E line \in AllLines[size] : \A i \in line : arr[i + 1] = player

Full(arr) == \A k \in 1..Len(arr) : arr[k] \in {"X", "O"}

----------------------------------------------------------------------------
(* A game against the hard AI on the 3x3 board: the human plays X on X's   *)
(* turns, the timer of the AI effect plays O.                              *)

InitHard ==
    /\ board = EmptyBoard(9)
    /\ currentPlayer = "X"
    /\ scores = [X |-> 0, O |-> 0]
    /\ gameActive = TRUE
    /\ isAIMode = TRUE
    /\ boardSize = 3
    /\ aiDifficulty = "hard"
    /\ winnerMsg = ""
    /\ aiTimer = NoTimer
    /\ ret = NoCall

\* a click on a rendered cell while it is X's turn
HumanTurnClick ==
    /\ currentPlayer = "X"
    /\ \E idx \in Indices(board) :
          /\ handleCellClick(Render, idx)
          /\ UNCHANGED <<isAIMode, boardSize, aiDifficulty, ret>>
          /\ afterHandler

NextHard ==
    \/ HumanTurnClick
    \/ TimerFires

SpecHard == InitHard /\ [][NextHard]_vars

----------------------------------------------------------------------------
(* Two exhaustive searches against each other on the 3x3 board: O is       *)
(* played by the AI effect at hard difficulty, X by the same search run on *)
(* the board with the two marks exchanged.                                 *)

\* the board seen from the other side: X and O exchanged
mirror(b) ==
    [k \in 1..Len(b) |->
        IF b[k] = "X" THEN "O" ELSE IF b[k] = "O" THEN "X" ELSE b[k]]

\* the cells of the highest score among <<score, cell>> pairs
highest(scored) ==
    {p[2] : p \in {q \in scored : \A r \in scored : r[1] <= q[1]}}

\* the empty cells whose score in getBestMove's loop is the highest
bestMoves(b, size) ==
    highest({<<minimax(Put(b, i, "O"), size, 0, FALSE), i>> :
                i \in {j \in Indices(b) : b[j + 1] = null}})

\* X plays a cell the mirrored search scores highest (getBestMove's choice
\* on the mirrored board is the lowest of them)
SearchMoveX ==
    /\ currentPlayer = "X"
    /\ gameActive
    /\ \E idx \in bestMoves(mirror(board), boardSize) :
          /\ handleCellClick(Render, idx)
          /\ UNCHANGED <<isAIMode, boardSize, aiDifficulty, ret>>
          /\ afterHandler

NextSelfPlay ==
    \/ SearchMoveX
    \/ TimerFires

\* a pending timer fires, and the X side keeps moving
SpecSelfPlay == InitHard /\ [][NextSelfPlay]_vars /\ WF_vars(NextSelfPlay)

----------------------------------------------------------------------------
(* handleCellClick called directly, with any index from 0 up to the        *)
(* array's length (one past its last cell).                                *)

\* what the caller of handleCellClick(idx) gets back: the function has no
\* throw statement, and both the early return and the end of the body return
\* undefined
handleCellClickOutcome(c, idx) ==
    IF ~c.gameActive \/ Truthy(At(c.board, idx))
    THEN [value |-> undefined, threw |-> FALSE]
    ELSE [value |-> undefined, threw |-> FALSE]

\* ret keeps the index of the call and what came back from it
DirectClick ==
    \E idx \in 0..Len(board) :
        /\ idx < boardSize * boardSize + MaxOverflow
        /\ handleCellClick(Render, idx)
        /\ ret' = [fn |-> "handleCellClick", idx |-> idx,
                   outcome |-> handleCellClickOutcome(Render, idx)]
        /\ UNCHANGED <<isAIMode, boardSize, aiDifficulty>>
        /\ afterHandler
        /\ WithinBounds'

NextApi ==
    \/ DirectClick
    \/ ResetClick

SpecApi == Init /\ [][NextApi]_vars

----------------------------------------------------------------------------
(* The functions applied to arbitrary boards: every 3x3 board, and on the  *)
(* larger sizes the boards made of one line with any contents laid over an *)
(* empty board or over a full board that has no complete line.             *)

Cells == {null, "X", "O"}

\* a full size x size board without a complete line
Pattern(size) ==
    [k \in 1..(size * size) |->
        IF (((k - 1) \div size) + (((k - 1) % size) \div 2)) % 2 = 0 THEN "X" ELSE "O"]

LineBoards(size) ==
    UNION {UNION {{[k \in 1..(size * size) |->
                      IF (k - 1) \in line THEN v[k - 1] ELSE bg[k]] :
                   v \in [line -> Cells]} :
                  line \in Lines(size)} :
           bg \in {EmptyBoard(size * size), Pattern(size)}}

InputBoards(size) ==
    IF size = 3 THEN [1..(size * size) -> Cells] ELSE LineBoards(size)

InitInputs ==
    /\ boardSize \in BOARD_SIZES
    /\ board \in InputBoards(boardSize)
    /\ currentPlayer = "X"
    /\ scores = [X |-> 0, O |-> 0]
    /\ gameActive = TRUE
    /\ isAIMode = FALSE
    /\ aiDifficulty = "easy"
    /\ winnerMsg = ""
    /\ aiTimer = NoTimer
    /\ ret = NoCall

callCheckWinner ==
    /\ ret = NoCall
    /\ \E player \in {"X", "O"} :
          ret' = [fn |-> "checkWinner", player |-> player,
                  value |-> checkWinner(board, boardSize, player)]
    /\ UNCHANGED <<gameVars, isAIMode, boardSize, aiDifficulty, aiTimer>>

callIsDraw ==
    /\ ret = NoCall
    /\ ret' = [fn |-> "isDraw", value |-> isDraw(board, boardSize)]
    /\ UNCHANGED <<gameVars, isAIMode, boardSize, aiDifficulty, aiTimer>>

\* handleCellClick(idx) on an empty cell, in a render where it is player's
\* turn; ret keeps the board it was called on
callHandleCellClick ==
    /\ ret = NoCall
    /\ Empties(board) <= MaxClickEmpties
    /\ \E idx \in Indices(board), player \in {"X", "O"} :
          /\ At(board, idx) = null
          /\ handleCellClick([Render EXCEPT !.currentPlayer = player], idx)
          /\ ret' = [fn |-> "handleCellClick", idx |-> idx, player |-> player,
                     board |-> board]
    /\ UNCHANGED <<isAIMode, boardSize, aiDifficulty, aiTimer>>

NextRules ==
    \/ callCheckWinner
    \/ callIsDraw
    \/ callHandleCellClick

SpecRules == InitInputs /\ [][NextRules]_vars

callGetRandomMove ==
    /\ ret = NoCall
    /\ \E move \in getRandomMove(board) :
          ret' = [fn |-> "getRandomMove", value |-> move]
    /\ UNCHANGED <<gameVars, isAIMode, boardSize, aiDifficulty, aiTimer>>

callGetMediumMove ==
    /\ ret = NoCall
    /\ \E move \in getMediumMove(board, boardSize) :
          ret' = [fn |-> "getMediumMove", value |-> move]
    /\ UNCHANGED <<gameVars, isAIMode, boardSize, aiDifficulty, aiTimer>>

callGetBestMove ==
    /\ ret = NoCall
    /\ Empties(board) <= MaxSearchEmpties
    /\ ret' = [fn |-> "getBestMove", value |-> getBestMove(board, boardSize)]
    /\ UNCHANGED <<gameVars, isAIMode, boardSize, aiDifficulty, aiTimer>>

NextSelect ==
    \/ callGetRandomMove
    \/ callGetMediumMove
    \/ callGetBestMove

SpecSelect == InitInputs /\ [][NextSelect]_vars

----------------------------------------------------------------------------
(* Moves applied one after the other to an empty board: handleCellClick is *)
(* run on an empty cell in a render whose currentPlayer is the mark of the *)
(* move; ret keeps the moves applied so far.                               *)

InitMoves ==
    /\ boardSize \in BOARD_SIZES
    /\ board = EmptyBoard(boardSize * boardSize)
    /\ currentPlayer = "X"
    /\ scores = [X |-> 0, O |-> 0]
    /\ gameActive = TRUE
    /\ isAIMode = FALSE
    /\ aiDifficulty = "easy"
    /\ winnerMsg = ""
    /\ aiTimer = NoTimer
    /\ ret = [fn |-> "applyMoves", moves |-> <<>>]

applyMove ==
    /\ Len(ret.moves) < MaxMoves
    /\ gameActive
    /\ \E idx \in Indices(board), player \in {"X", "O"} :
          /\ At(board, idx) = null
          /\ handleCellClick([Render EXCEPT !.currentPlayer = player], idx)
          /\ ret' = [ret EXCEPT !.moves = Append(@, [idx |-> idx, player |-> player])]
    /\ UNCHANGED <<isAIMode, boardSize, aiDifficulty, aiTimer>>

\* the game is started again from the empty board
restartMoves ==
    /\ ret.moves # <<>>
    /\ resetGame
    /\ ret' = [ret EXCEPT !.moves = <<>>]
    /\ UNCHANGED <<scores, isAIMode, boardSize, aiDifficulty, aiTimer>>

NextMoves ==
    \/ applyMove
    \/ restartMoves

SpecMoves == InitMoves /\ [][NextMoves]_vars

----------------------------------------------------------------------------
(* The calls of the exhaustive search: getBestMove calls minimax on the    *)
(* board with O at an empty cell, and a call that is not at a finished     *)
(* position calls minimax on its array with the mover's mark at an empty   *)
(* cell.  ret holds the arguments of the call being followed and what it   *)
(* returns if the position is finished.                                    *)

\* the result of the first three tests of minimax
minimaxTerminal(arr, size, depth) ==
    IF checkWinner(arr, size, "O") THEN [terminal |-> TRUE, score |-> 10 - depth]
    ELSE IF checkWinner(arr, size, "X") THEN [terminal |-> TRUE, score |-> depth - 10]
    ELSE IF every(arr) THEN [terminal |-> TRUE, score |-> 0]
    ELSE [terminal |-> FALSE]

minimaxCall(arr, size, depth, isMaximizing) ==
    [fn |-> "minimax", arr |-> arr, depth |-> depth, isMaximizing |-> isMaximizing,
     result |-> minimaxTerminal(arr, size, depth)]

\* a board with X at the cells xs and O at the cells os
Position(size, xs, os) ==
    [k \in 1..(size * size) |->
        IF (k - 1) \in xs THEN "X" ELSE IF (k - 1) \in os THEN "O" ELSE null]

\* positions of a game in AI mode in which it is O's turn: after X's first
\* move on 3x3, after three moves of X and two of O on 4x4, after seven moves
\* of X and six of O on 5x5
SearchRoots(size) ==
    IF size = 3 THEN {Position(3, {x}, {}) : x \in 0..8}
    ELSE IF size = 4 THEN {Position(4, {0, 5, 6}, {1, 10})}
    ELSE {Position(5, {0, 2, 6, 8, 11, 13, 15}, {1, 3, 5, 7, 10, 12})}

InitSearch ==
    /\ boardSize \in BOARD_SIZES
    /\ board \in SearchRoots(boardSize)
    /\ currentPlayer = "O"
    /\ scores = [X |-> 0, O |-> 0]
    /\ gameActive = TRUE
    /\ isAIMode = TRUE
    /\ aiDifficulty = "hard"
    /\ winnerMsg = ""
    /\ aiTimer = NoTimer
    /\ ret = NoCall

\* getBestMove's call minimax(newBoard, 0, false) for an empty cell i
searchFromGetBestMove ==
    /\ ret = NoCall
    /\ \E i \in Indices(board) :
          /\ board[i + 1] = null
          /\ ret' = minimaxCall(Put(board, i, "O"), boardSize, 0, FALSE)
    /\ UNCHANGED <<gameVars, isAIMode, boardSize, aiDifficulty, aiTimer>>

\* the recursive call of minimax for an empty cell i of its array
searchFromMinimax ==
    /\ ret.fn = "minimax"
    /\ ~ret.result.terminal
    /\ \E i \in Indices(ret.arr) :
          /\ ret.arr[i + 1] = null
          /\ ret' = minimaxCall(Put(ret.arr, i, IF ret.isMaximizing THEN "O" ELSE "X"),
                                boardSize, ret.depth + 1, ~ret.isMaximizing)
    /\ UNCHANGED <<gameVars, isAIMode, boardSize, aiDifficulty, aiTimer>>

NextSearch ==
    \/ searchFromGetBestMove
    \/ searchFromMinimax

SpecSearch == InitSearch /\ [][NextSearch]_vars

----------------------------------------------------------------------------
(* minimax run step by step on its array, which its calls share and write  *)
(* in place.  ret holds the array, the stack of the calls in progress      *)
(* (innermost last) and the value the last finished call returned.  A call *)
(* in progress is at "test" (before its first three tests), at "loop"      *)
(* (about to look at cell i) or at "call" (waiting for the call it made    *)
(* for cell i); entry keeps the contents the array had when the call began.*)

minimaxFrame(arr, depth, isMaximizing) ==
    [pc |-> "test", depth |-> depth, isMaximizing |-> isMaximizing,
     i |-> 0, best |-> 0, entry |-> arr]

NoReturn == [has |-> FALSE]

\* arr[i] = null after the recursive call: without the write
restoreNothing(arr, i) == arr

\* arr[i] = null after the recursive call
restore(arr, i) == Put(arr, i, null)

\* the innermost call in progress
top == ret.stack[Len(ret.stack)]

\* the calls in progress without the innermost one
callers == SubSeq(ret.stack, 1, Len(ret.stack) - 1)

\* the innermost call returns value
minimaxReturn(value) ==
    ret' = [ret EXCEPT !.stack = callers,
                       !.returned = [has |-> TRUE, value |-> value,
                                     entry |-> top.entry]]

\* getBestMove copies the board, puts O at an empty cell i and calls
\* minimax(newBoard, 0, false)
getBestMoveCallsMinimax ==
    /\ ret = NoCall
    /\ Empties(board) <= MaxSearchEmpties
    /\ \E i \in Indices(board) :
          /\ board[i + 1] = null
          /\ ret' = [fn |-> "minimax", arr |-> Put(board, i, "O"),
                     stack |-> <<minimaxFrame(Put(board, i, "O"), 0, FALSE)>>,
                     returned |-> NoReturn]
    /\ UNCHANGED <<gameVars, isAIMode, boardSize, aiDifficulty, aiTimer>>

\* the three tests at the start of minimax, then the start of its loop
minimaxTests ==
    /\ ret.fn = "minimax" /\ ret.stack # <<>> /\ ~ret.returned.has
    /\ top.pc = "test"
    /\ LET result == minimaxTerminal(ret.arr, boardSize, top.depth)
       IN  IF result.terminal
           THEN minimaxReturn(result.score)
           ELSE ret' = [ret EXCEPT !.stack[Len(ret.stack)] =
                           [top EXCEPT !.pc = "loop", !.i = 0,
                                       !.best = IF top.isMaximizing
                                                THEN NegInfinity ELSE -NegInfinity]]
    /\ UNCHANGED <<gameVars, isAIMode, boardSize, aiDifficulty, aiTimer>>

\* one turn of the for loop: past the last cell the call returns best; an
\* occupied cell is skipped; an empty cell gets the mover's mark and minimax
\* is called
minimaxLoop ==
    /\ ret.fn = "minimax" /\ ret.stack # <<>> /\ ~ret.returned.has
    /\ top.pc = "loop"
    /\ IF top.i >= Len(ret.arr)
       THEN minimaxReturn(top.best)
       ELSE IF ret.arr[top.i + 1] # null
       THEN ret' = [ret EXCEPT !.stack[Len(ret.stack)] = [top EXCEPT !.i = @ + 1]]
       ELSE LET marked == Put(ret.arr, top.i, IF top.isMaximizing THEN "O" ELSE "X")
            IN  ret' = [ret EXCEPT
                          !.arr = marked,
                          !.stack = Append(callers, [top EXCEPT !.pc = "call"])
                                    \o <<minimaxFrame(marked, top.depth + 1,
                                                      ~top.isMaximizing)>>]
    /\ UNCHANGED <<gameVars, isAIMode, boardSize, aiDifficulty, aiTimer>>

\* the recursive call came back: best = Math.max / Math.min(best, value),
\* arr[i] = null, and the loop goes on
minimaxAfterCall ==
    /\ ret.fn = "minimax" /\ ret.stack # <<>> /\ ret.returned.has
    /\ top.pc = "call"
    /\ LET value == ret.returned.value
           best == IF top.isMaximizing
                   THEN (IF value > top.best THEN value ELSE top.best)
                   ELSE (IF value < top.best THEN value ELSE top.best)
       IN  ret' = [ret EXCEPT
                     !.arr = restore(ret.arr, top.i),
                     !.returned = NoReturn,
                     !.stack[Len(ret.stack)] =
                         [top EXCEPT !.pc = "loop", !.best = best, !.i = @ + 1]]
    /\ UNCHANGED <<gameVars, isAIMode, boardSize, aiDifficulty, aiTimer>>

NextRun ==
    \/ getBestMoveCallsMinimax
    \/ minimaxTests
    \/ minimaxLoop
    \/ minimaxAfterCall

SpecRun == InitInputs /\ [][NextRun]_vars

----------------------------------------------------------------------------
(* The game while the user leaves the AI's turn alone: user events happen  *)
(* only when no automated move is due, and a timer that stays pending      *)
(* fires.  User events are explored as far as the automated move they lead *)
(* to is within the bound of the search.                                   *)

\* AI mode is on, it is O's turn and the game is in progress
AITurn == isAIMode /\ currentPlayer = "O" /\ gameActive

UserEvent ==
    /\ ~AITurn
    /\ \/ CellClick
       \/ ResetClick
       \/ toggleAIMode
       \/ setAIDifficulty
       \/ setBoardSize
    /\ \A c \in aiTimer' : SearchBounded(c)

NextQuiet ==
    \/ UserEvent
    \/ TimerFires

\* setTimeout: a timer that is not cleared fires
SpecQuiet == Init /\ [][NextQuiet]_vars /\ WF_vars(TimerFires)

----------------------------------------------------------------------------
(* C1: a move request whose index is out of range [0, N^2) or whose target *)
(* cell is occupied is rejected: the board (length and contents), the      *)
(* current player and the game status stay as they were.                   *)
C1_IllegalMoveRejected ==
    [][\A idx \in 0..Len(board) :
          (/\ handleCellClick(Render, idx)
           /\ \/ idx \notin 0..(boardSize * boardSize - 1)
              \/ Truthy(At(board, idx)))
          => /\ board' = board
             /\ currentPlayer' = currentPlayer
             /\ gameActive' = gameActive
             /\ winnerMsg' = winnerMsg]_vars

(* C2: Win and Draw are absorbing: once the game is over, no cell click and *)
(* no automated move changes the board, the current player or the scores,  *)
(* and the board changes only through resetGame, toggleAIMode or a change  *)
(* of board size.                                                          *)
C2_TerminalAbsorbing ==
    [][~gameActive =>
          /\ (CellClick \/ TimerFires) => UNCHANGED <<board, currentPlayer, scores>>
          /\ board' # board => (ResetClick \/ toggleAIMode \/ setBoardSize)]_vars

\* a finished game with cells still empty: clicks on them are refused
C2_Witness == ~gameActive /\ Empties(board) > 0 /\ isAIMode

(* C3: against the hard AI on 3x3, X moving first and O played by          *)
(* getBestMove, no game ends in a win for X: X never has a complete line,  *)
(* and a finished game is a win for O or a draw.                           *)
C3_HardNeverLoses ==
    /\ ~HasLine(board, boardSize, "X")
    /\ scores["X"] = 0
    /\ ~gameActive => winnerMsg \in {"O Wins!", "It's a Draw!"}

\* a game against the hard AI played to the last cell
C3_Witness == ~gameActive /\ Full(board) /\ winnerMsg = "It's a Draw!"

(* C4: checkWinner(arr, size, player) is true exactly when one of the      *)
(* 2*size + 2 lines (rows, columns, the two diagonals) has all its cells   *)
(* equal to player, for sizes 3, 4, 5 and both players.                    *)
C4_CheckWinnerExact ==
    /\ Cardinality(Lines(boardSize)) = 2 * boardSize + 2
    /\ ret.fn = "checkWinner" =>
          (ret.value <=> HasLine(board, boardSize, ret.player))

\* checkWinner found a line of O that is the anti-diagonal of a 5x5 board
C4_Witness ==
    /\ ret.fn = "checkWinner"
    /\ ret.value
    /\ boardSize = 5
    /\ ret.player = "O"
    /\ \A i \in 0..4 : board[Cell(5, i, 4 - i) + 1] = "O"
    /\ board[1] = null

Other(player) == IF player = "X" THEN "O" ELSE "X"

\* the player who made the last move of the current game
LastMover == IF gameActive THEN Other(currentPlayer) ELSE currentPlayer

(* C5: in a game played through accepted moves, at most one player has a   *)
(* complete line, and after a move by a player the opponent has none.      *)
C5_SingleWinner ==
    /\ ~(HasLine(board, boardSize, "X") /\ HasLine(board, boardSize, "O"))
    /\ ~(checkWinner(board, boardSize, "X") /\ checkWinner(board, boardSize, "O"))
    /\ Marks(board) > 0 => ~HasLine(board, boardSize, Other(LastMover))

\* O has completed a line
C5_Witness == ~gameActive /\ HasLine(board, boardSize, "O") /\ LastMover = "O"

\* the outcome the board contents determine
BoardOutcome ==
    IF HasLine(board, boardSize, "X") THEN "X Wins!"
    ELSE IF HasLine(board, boardSize, "O") THEN "O Wins!"
    ELSE IF Full(board) THEN "It's a Draw!"
    ELSE ""

(* C6: the stored status agrees with the board: gameActive is false exactly *)
(* when a player has a complete line or every cell is occupied, and the    *)
(* announced result is the one the board determines.                       *)
C6_StatusAgreesWithBoard ==
    /\ ~gameActive <=> (\/ HasLine(board, boardSize, "X")
                        \/ HasLine(board, boardSize, "O")
                        \/ Full(board))
    /\ winnerMsg = BoardOutcome

\* a game won with the move that fills the last cell
C6_Witness == ~gameActive /\ Full(board) /\ winnerMsg = "X Wins!"

\* a step that starts a new game
NewGameStep == ResetClick \/ toggleAIMode \/ setBoardSize

(* C7: an accepted move changes exactly one cell, from empty to the mover's *)
(* mark, and leaves every other cell as it was; within a game no mark is   *)
(* erased or overwritten.                                                  *)
C7_OneCellPerMove ==
    [][\/ NewGameStep
       \/ board' = board
       \/ /\ Len(board') = Len(board)
          /\ \E k \in 1..Len(board) :
                /\ board[k] = null
                /\ board'[k] = currentPlayer
                /\ \A j \in (1..Len(board)) \ {k} : board'[j] = board[j]]_vars

\* a game in which both players have moved
C7_Witness == gameActive /\ Marks(board) >= 4

\* the example of the spec: a full 3x3 board without a complete line
ExampleDraw == <<"X", "O", "X", "O", "X", "O", "O", "X", "O">>

(* C8: a draw is declared exactly when every cell is occupied and neither  *)
(* player has a complete line: isDraw is true for these boards only (the   *)
(* example board among them), and an accepted move ends in a draw exactly  *)
(* then, while a move that fills the board and completes a line is a win.  *)
C8_DrawExact ==
    /\ ret.fn = "isDraw" =>
          (ret.value <=> (/\ Full(board)
                          /\ ~HasLine(board, boardSize, "X")
                          /\ ~HasLine(board, boardSize, "O")))
    /\ (ret.fn = "isDraw" /\ boardSize = 3 /\ board = ExampleDraw) => ret.value
    /\ ret.fn = "handleCellClick" =>
          /\ winnerMsg = DrawMsg <=> (/\ Full(board)
                                       /\ ~HasLine(board, boardSize, "X")
                                       /\ ~HasLine(board, boardSize, "O"))
          /\ (Full(board) /\ HasLine(board, boardSize, ret.player))
                => winnerMsg = WinsMsg(ret.player)
          /\ winnerMsg = DrawMsg => ~gameActive

\* isDraw applied to the example board
C8_Witness ==
    ret.fn = "isDraw" /\ boardSize = 3 /\ board = ExampleDraw /\ ret.value

(* C9: at every difficulty the selector returns null only when the board   *)
(* has no empty cell; otherwise it returns the index of an empty cell in   *)
(* [0, N^2); at easy difficulty every empty cell is a possible result.     *)
C9_SelectorReturnsEmptyCell ==
    /\ ret.fn \in {"getRandomMove", "getMediumMove", "getBestMove"} =>
          IF Empties(board) = 0
          THEN ret.value = nullIndex
          ELSE /\ ret.value \in 0..(boardSize * boardSize - 1)
               /\ board[ret.value + 1] = null
    /\ \A i \in Indices(board) : board[i + 1] = null => i \in getRandomMove(board)

\* the exhaustive search returned an empty cell that is not the first one
C9_Witness ==
    /\ ret.fn = "getBestMove"
    /\ Empties(board) = MaxSearchEmpties
    /\ ret.value # nullIndex
    /\ \E i \in Indices(board) : i < ret.value /\ board[i + 1] = null

\* the empty cells that complete a line for player when filled with its mark
Completing(arr, size, player) ==
    {i \in Indices(arr) : arr[i + 1] = null /\ HasLine(Put(arr, i, player), size, player)}

\* the example of the spec: O can win at 2, X threatens at 5
ExampleWin == <<"O", "O", null, "X", "X", null, null, null, null>>

(* C10: at medium difficulty, when some empty cell completes a line for O, *)
(* getMediumMove returns such a cell, also when a cell that blocks X        *)
(* exists; for [O,O,_,X,X,_,_,_,_] it returns 2.                           *)
C10_MediumTakesWin ==
    ret.fn = "getMediumMove" =>
        /\ Completing(board, boardSize, "O") # {}
              => ret.value \in Completing(board, boardSize, "O")
        /\ (boardSize = 3 /\ board = ExampleWin) => ret.value = 2

\* getMediumMove applied to the example board, where X could be blocked at 5
C10_Witness ==
    /\ ret.fn = "getMediumMove"
    /\ boardSize = 3
    /\ board = ExampleWin
    /\ 5 \in Completing(board, boardSize, "X")
    /\ ret.value = 2

\* the example of the spec: X threatens at 2, O has no winning cell
ExampleBlock == <<"X", "X", null, null, null, null, null, null, null>>

(* C11: at medium difficulty, when no empty cell completes a line for O    *)
(* and some empty cell completes a line for X, getMediumMove returns a     *)
(* cell that completes a line for X; for [X,X,_,_,_,_,_,_,_] it returns 2. *)
C11_MediumBlocks ==
    ret.fn = "getMediumMove" =>
        /\ (/\ Completing(board, boardSize, "O") = {}
            /\ Completing(board, boardSize, "X") # {})
              => ret.value \in Completing(board, boardSize, "X")
        /\ (boardSize = 3 /\ board = ExampleBlock) => ret.value = 2

\* getMediumMove applied to the example board, whose centre is empty
C11_Witness ==
    /\ ret.fn = "getMediumMove"
    /\ boardSize = 3
    /\ board = ExampleBlock
    /\ Completing(board, boardSize, "O") = {}
    /\ board[5] = null
    /\ ret.value = 2

(* C12: on the 3x3 board, with X first and both sides choosing every move  *)
(* by exhaustive minimax, the game always ends in a draw: a finished game  *)
(* is a draw on a full board, every step places one mark (so a game has at *)
(* most nine steps), and while the game runs one side has its move ready.  *)
C12_SelfPlayDraws ==
    /\ [](~gameActive => /\ winnerMsg = DrawMsg
                          /\ Full(board)
                          /\ scores = [X |-> 0, O |-> 0])
    /\ [](gameActive => \/ (currentPlayer = "X" /\ Empties(board) > 0)
                         \/ (currentPlayer = "O" /\ aiTimer # NoTimer))
    /\ [][Marks(board') = Marks(board) + 1]_vars

\* a drawn game that X opened in the corner the mirrored getBestMove picks
C12_Witness ==
    /\ ~gameActive
    /\ winnerMsg = DrawMsg
    /\ Marks(board) = 9
    /\ board[1] = "X"

\* the request handleCellClick(idx) is illegal in the current state
Illegal(idx) ==
    \/ ~gameActive
    \/ idx \notin 0..(boardSize * boardSize - 1)
    \/ Truthy(At(board, idx))

\* what the caller gets back from an accepted move
AcceptedOutcome == [value |-> undefined, threw |-> FALSE]

(* C13: an illegal move request (finished game, occupied cell or index out *)
(* of range) gives the caller an outcome that differs from the outcome of  *)
(* an accepted move.                                                       *)
C13_IllegalMoveSignalled ==
    [][\A idx \in 0..Len(board) :
          (/\ Illegal(idx)
           /\ handleCellClick(Render, idx)
           /\ ret'.fn = "handleCellClick"
           /\ ret'.idx = idx)
          => ret'.outcome # AcceptedOutcome]_vars

\* a fresh game: an empty board of boardSize^2 cells, X to move, in progress
FreshGame ==
    /\ board = EmptyBoard(boardSize * boardSize)
    /\ boardSize \in BOARD_SIZES
    /\ currentPlayer = "X"
    /\ gameActive = TRUE
    /\ winnerMsg = ""

(* C14: the game is fresh (all-empty board of boardSize^2 cells, X to      *)
(* move, in progress) in the initial state and right after resetGame,      *)
(* toggleAIMode and a change of board size, whatever the state before.     *)
C14_FreshGame ==
    /\ FreshGame
    /\ [][(ResetClick \/ toggleAIMode \/ setBoardSize) => FreshGame']_vars

\* a fresh 4x4 game in AI mode, started after a game that O won (which ended
\* with O as the current player)
C14_Witness ==
    /\ FreshGame
    /\ boardSize = 4
    /\ isAIMode
    /\ scores["O"] = 1

(* C15: in every state reached by cell clicks, automated moves, resets,    *)
(* mode toggles and size changes, boardSize is 3, 4 or 5 and the board has *)
(* exactly boardSize^2 cells.                                              *)
C15_BoardLength ==
    /\ boardSize \in BOARD_SIZES
    /\ Len(board) = boardSize * boardSize
    /\ \A c \in aiTimer : Len(c.board) = c.boardSize * c.boardSize

\* a 5x5 game in AI mode in which the automated move is pending
C15_Witness ==
    /\ boardSize = 5
    /\ Len(board) = 25
    /\ Marks(board) = 1
    /\ aiTimer # NoTimer

\* the moves applied since the empty board, without their order
MoveSet == {ret.moves[k] : k \in 1..Len(ret.moves)}

Completes(player) ==
    /\ HasLine(board', boardSize', player)
    /\ ~HasLine(board, boardSize, player)

(* C17: a player's score grows by exactly one in each step that completes  *)
(* a line for that player and in no other step: a draw, a rejected move,   *)
(* resetGame, toggleAIMode, a difficulty change and a size change leave    *)
(* both scores as they are (a reset leaves the board empty; a mode        *)
(* toggle, a difficulty change and a size change change their variable).  *)
C17_ScoresCountWins ==
    [][/\ scores' = [p \in {"X", "O"} |->
                       scores[p] + IF Completes(p) THEN 1 ELSE 0]
       /\ (\/ Marks(board') = 0
           \/ isAIMode' # isAIMode
           \/ aiDifficulty' # aiDifficulty
           \/ boardSize' # boardSize) => scores' = scores
       /\ (winnerMsg' = DrawMsg \/ board' = board) => scores' = scores]_vars

\* O has won a game that started after a game X had won
C17_Witness ==
    /\ scores = [X |-> 1, O |-> 1]
    /\ ~gameActive
    /\ HasLine(board, boardSize, "O")

(* C18: at hard difficulty getBestMove returns the lowest-index empty cell *)
(* among those whose minimax score (O placed there, X to move, depth 0) is *)
(* the highest: a function of the board and the board size.                *)
C18_BestMoveLowestIndex ==
    (ret.fn = "getBestMove" /\ Empties(board) > 0) =>
        /\ ret.value \in bestMoves(board, boardSize)
        /\ \A i \in bestMoves(board, boardSize) : ret.value <= i

\* several cells share the highest score and the lowest of them is not the
\* first empty cell
C18_Witness ==
    /\ ret.fn = "getBestMove"
    /\ Cardinality(bestMoves(board, boardSize)) >= 2
    /\ \E i \in Indices(board) : i < ret.value /\ board[i + 1] = null
    /\ \E i \in bestMoves(board, boardSize) : ret.value < i

(* C19: on every board size and at every depth the search reaches, the     *)
(* scores minimax returns at finished positions are ordered: a win of the  *)
(* AI (O) is above a draw, a win of the opponent (X) is below a draw, and  *)
(* a draw is 0.                                                            *)
C19_TerminalScoresOrdered ==
    (ret.fn = "minimax" /\ ret.result.terminal) =>
        /\ HasLine(ret.arr, boardSize, "O")
              => ret.result.score = 10 - ret.depth /\ ret.result.score > 0
        /\ (~HasLine(ret.arr, boardSize, "O") /\ HasLine(ret.arr, boardSize, "X"))
              => ret.result.score = ret.depth - 10 /\ ret.result.score < 0
        /\ (~HasLine(ret.arr, boardSize, "O") /\ ~HasLine(ret.arr, boardSize, "X"))
              => ret.result.score = 0

(* C20: in AI mode, while it is O's turn and the automated move is         *)
(* pending, no step places a mark at a cell other than one the move        *)
(* selector returns for the pending callback: a human click places no      *)
(* mark.  (At hard difficulty the selector is evaluated on boards with at  *)
(* most MaxSearchEmpties empty cells.)                                     *)
C20_OnlySelectorPlaysO ==
    [][\A c \in aiTimer :
          (/\ isAIMode /\ currentPlayer = "O" /\ gameActive
           /\ SearchBounded(c)
           /\ Len(board') = Len(board))
          => \A k \in 1..Len(board) :
                (board[k] = null /\ board'[k] # null)
                    => (board'[k] = "O" /\ (k - 1) \in aiMoves(c))]_vars

(* C21: when a call of minimax returns, its array holds the contents it    *)
(* had when the call began; the value the outermost call returns is the    *)
(* score of the position it was given; and the board of the game is not    *)
(* the array the search writes: it stays as it was.                        *)
C21_SearchRestoresArray ==
    /\ [](ret.fn = "minimax" =>
            /\ ret.returned.has => ret.arr = ret.returned.entry
            /\ (ret.returned.has /\ ret.stack = <<>>) =>
                  /\ \E i \in Indices(board) :
                        board[i + 1] = null /\ ret.arr = Put(board, i, "O")
                  /\ ret.returned.value = minimax(ret.arr, boardSize, 0, FALSE))
    /\ [][board' = board]_vars

\* the outermost call has returned after calls two levels deep wrote and
\* restored the array
C21_Witness ==
    /\ ret.fn = "minimax"
    /\ ret.returned.has
    /\ ret.stack = <<>>
    /\ Empties(ret.arr) = 2
    /\ ret.returned.value = 0
    /\ boardSize = 3

(* C22: an automated move is pending only while AI mode is on, it is O's   *)
(* turn and the game is in progress, and the pending callback holds the    *)
(* board, size and difficulty of the current state: a move scheduled       *)
(* before a click, reset, mode toggle, difficulty change or size change is *)
(* no longer pending afterwards.                                           *)
C22_PendingMoveIsCurrent ==
    \A c \in aiTimer :
        /\ isAIMode
        /\ currentPlayer = "O"
        /\ gameActive
        /\ c = Render

\* the automated move is pending at medium difficulty on a 3x3 board with
\* two marks of X and one of O
C22_Witness ==
    /\ aiTimer # NoTimer
    /\ aiDifficulty = "medium"
    /\ boardSize = 3
    /\ Marks(board) = 3

\* the number of cells of arr that hold player's mark
Count(arr, player) == Cardinality({k \in 1..Len(arr) : arr[k] = player})

(* C23: the number of X marks equals the number of O marks or exceeds it   *)
(* by one, and while the game is in progress the current player is X       *)
(* exactly when the two numbers are equal.                                 *)
C23_MarksAlternate ==
    /\ Count(board, "X") - Count(board, "O") \in {0, 1}
    /\ gameActive => (currentPlayer = "X" <=> Count(board, "X") = Count(board, "O"))
    /\ currentPlayer \in {"X", "O"}

\* it is O's turn after three marks of X and two of O
C23_Witness ==
    /\ gameActive
    /\ currentPlayer = "O"
    /\ Count(board, "X") = 3
    /\ Count(board, "O") = 2

(* C24: in AI mode, when it is O's turn in a game in progress and no user  *)
(* event intervenes, the automated player eventually moves: the turn       *)
(* passes to X or the game ends; and the step that ends O's turn places    *)
(* exactly one mark, an O.                                                 *)
C24_AutomatedMoveHappens ==
    /\ AITurn ~> (currentPlayer = "X" \/ ~gameActive)
    /\ [][AITurn => /\ Count(board', "O") = Count(board, "O") + 1
                    /\ Count(board', "X") = Count(board, "X")
                    /\ Len(board') = Len(board)
                    /\ (currentPlayer' = "X" \/ ~gameActive')]_vars

\* the automated player has answered twice and it is the user's turn
C24_Witness ==
    /\ isAIMode
    /\ gameActive
    /\ currentPlayer = "X"
    /\ Count(board, "O") = 2
    /\ Count(board, "X") = 2
    /\ aiTimer = NoTimer

(* C25: at hard difficulty, when some empty cell completes a line for O,   *)
(* getBestMove returns the lowest-index cell that completes a line for O,  *)
(* also when another cell wins later or draws.                             *)
C25_HardTakesImmediateWin ==
    (ret.fn = "getBestMove" /\ Completing(board, boardSize, "O") # {}) =>
        /\ ret.value \in Completing(board, boardSize, "O")
        /\ \A i \in Completing(board, boardSize, "O") : ret.value <= i

\* O wins at once at the returned cell, and an empty cell before it wins
\* two moves later whatever X answers
C25_Witness ==
    /\ ret.fn = "getBestMove"
    /\ ~HasLine(board, boardSize, "O")
    /\ ~HasLine(board, boardSize, "X")
    /\ ret.value \in Completing(board, boardSize, "O")
    /\ \E i \in Indices(board) :
          /\ i < ret.value
          /\ board[i + 1] = null
          /\ minimax(Put(board, i, "O"), boardSize, 0, FALSE) = 8

\* the indices of the empty cells of arr
EmptyCells(arr) == {i \in Indices(arr) : arr[i + 1] = null}

\* no empty cell completes a line for O or for X
NoImmediateWin ==
    /\ Completing(board, boardSize, "O") = {}
    /\ Completing(board, boardSize, "X") = {}

(* C26: at medium difficulty, when no empty cell completes a line for O or *)
(* for X, getMediumMove returns floor(size^2 / 2) if that cell is empty,   *)
(* and otherwise what getRandomMove returns: any of the empty cells, or    *)
(* null when there is none.                                                *)
C26_MediumCentreThenRandom ==
    NoImmediateWin =>
        LET centre == (boardSize * boardSize) \div 2
        IN  /\ ret.fn = "getMediumMove" =>
                  IF board[centre + 1] = null THEN ret.value = centre
                  ELSE IF EmptyCells(board) = {} THEN ret.value = nullIndex
                  ELSE ret.value \in EmptyCells(board)
            /\ getMediumMove(board, boardSize) =
                  IF board[centre + 1] = null THEN {centre}
                  ELSE IF EmptyCells(board) = {} THEN {nullIndex}
                  ELSE EmptyCells(board)

\* the centre of a 4x4 board is taken and the result is the last of several
\* empty cells
C26_Witness ==
    /\ ret.fn = "getMediumMove"
    /\ NoImmediateWin
    /\ boardSize = 4
    /\ board[9] # null
    /\ Cardinality(EmptyCells(board)) >= 2
    /\ \A i \in EmptyCells(board) : i <= ret.value

(* C27: every game ends within size^2 accepted moves: no state of a game   *)
(* in progress has a full board, every accepted move leaves one empty cell *)
(* fewer, and the recursion of minimax from a position goes no deeper than *)
(* the number of its empty cells (searched on positions with at most       *)
(* MaxSearchEmpties empty cells).                                          *)
C27_GamesAndSearchEnd ==
    /\ [](gameActive => Empties(board) > 0)
    /\ [](Marks(board) + Empties(board) = boardSize * boardSize)
    /\ [](Empties(board) <= MaxSearchEmpties =>
            minimaxDepth(board, boardSize, 0, currentPlayer = "O") <= Empties(board))
    /\ [][(board' # board /\ Marks(board') # 0) =>
             Empties(board') = Empties(board) - 1]_vars

\* a game in AI mode that ended in a draw with the ninth move, after a game
\* X had won
C27_Witness ==
    /\ isAIMode
    /\ Empties(board) = 0
    /\ Marks(board) = 9
    /\ winnerMsg = DrawMsg
    /\ scores = [X |-> 1, O |-> 0]

====
